---------------------------- MODULE Spec2Model ----------------------------
(***************************************************************************)
(* Model of the script validator (src/python/validator.py) and the script  *)
(* runner (src/python/runner.py).                                          *)
(*                                                                         *)
(* A source text is modelled by the outcome of parsing it and, when it     *)
(* parses, by its syntax tree.  Tree nodes are records that carry the      *)
(* field names of Python's ast module.  A dotted module name "a.b" is the  *)
(* sequence of its components <<"a", "b">>, so str.split('.') is the       *)
(* sequence itself and [0] is its first element.                           *)
(***************************************************************************)
EXTENDS Naturals, Sequences, FiniteSets, TLC

(***************************************************************************)
(* Bounds of the model.                                                    *)
(***************************************************************************)
\* longest top-level body (number of statements) of a submitted script
MaxStmts == 2
\* number of host threads that may call execute_task
NumThreads == 2
\* number of execute_task calls started in one process
MaxCalls == 2

(***************************************************************************)
(* Policy: validator.py lines 33-39, runner.py lines 50-69.                *)
(***************************************************************************)
ALLOWED_IMPORTS ==
    {"math", "json", "datetime", "re", "random", "collections", "itertools",
     "functools"}

FORBIDDEN_CALLS ==
    {"eval", "exec", "compile", "open", "input", "__import__", "globals",
     "locals", "super", "help", "exit", "quit"}

FORBIDDEN_ATTRS == {"system", "popen", "spawn", "fork", "kill"}

SAFE_BUILTINS ==
    {"abs", "all", "any", "ascii", "bin", "bool", "bytearray", "bytes",
     "chr", "complex", "dict", "divmod", "enumerate", "filter", "float",
     "format", "frozenset", "getattr", "hasattr", "hash", "hex", "id",
     "int", "isinstance", "issubclass", "iter", "len", "list", "map",
     "max", "min", "next", "object", "oct", "ord", "pow", "print",
     "range", "repr", "reversed", "round", "set", "slice", "sorted",
     "str", "sum", "tuple", "type", "zip", "__import__",
     "Exception", "BaseException", "ValueError", "TypeError", "KeyError",
     "IndexError", "AttributeError", "RuntimeError", "ImportError",
     "NameError", "SyntaxError", "StopIteration", "ArithmeticError",
     "AssertionError", "BufferError", "EOFError", "FloatingPointError",
     "GeneratorExit", "KeyboardInterrupt", "LookupError", "MemoryError",
     "NotImplementedError", "OSError", "OverflowError", "ReferenceError",
     "SystemError", "SystemExit", "UnboundLocalError", "UnicodeError",
     "ZeroDivisionError",
     "super", "property", "classmethod", "staticmethod"}

(***************************************************************************)
(* Syntax trees (the node classes of Python's ast that the scripts of the  *)
(* model use).  An absent optional name is "".                             *)
(***************************************************************************)
Name(id) == [type |-> "Name", id |-> id]

Attribute(value, attr) == [type |-> "Attribute", value |-> value, attr |-> attr]

Call(func, args) == [type |-> "Call", func |-> func, args |-> args]

Expr(value) == [type |-> "Expr", value |-> value]

Return(value) == [type |-> "Return", value |-> value]

Raise(exc) == [type |-> "Raise", exc |-> exc]

Assign(target, value) == [type |-> "Assign", targets |-> <<target>>, value |-> value]

alias(name, asname) == [type |-> "alias", name |-> name, asname |-> asname]

Import(names) == [type |-> "Import", names |-> names]

ImportFrom(module, names) ==
    [type |-> "ImportFrom", module |-> module, names |-> names]

arguments(posonlyargs, args, vararg, kwonlyargs, kwarg, defaults) ==
    [type |-> "arguments", posonlyargs |-> posonlyargs, args |-> args,
     vararg |-> vararg, kwonlyargs |-> kwonlyargs, kwarg |-> kwarg,
     defaults |-> defaults]

FunctionDef(name, args, body, decorator_list) ==
    [type |-> "FunctionDef", name |-> name, args |-> args, body |-> body,
     decorator_list |-> decorator_list]

AsyncFunctionDef(name, args, body, decorator_list) ==
    [type |-> "AsyncFunctionDef", name |-> name, args |-> args, body |-> body,
     decorator_list |-> decorator_list]

Module(body) == [type |-> "Module", body |-> body]

(***************************************************************************)
(* The scripts of the model.                                               *)
(***************************************************************************)
\* print(params)
PrintParams == Expr(Call(Name("print"), <<Name("params")>>))

\* sys.stderr.write(str(params))
WriteStderr ==
    Expr(Call(Attribute(Attribute(Name("sys"), "stderr"), "write"),
              <<Call(Name("str"), <<Name("params")>>)>>))

\* raise ValueError(params)        (inside the Exception hierarchy)
RaiseValueError == Raise(Call(Name("ValueError"), <<Name("params")>>))

\* raise SystemExit(params)        (a BaseException outside Exception)
RaiseSystemExit == Raise(Call(Name("SystemExit"), <<Name("params")>>))

ReturnParams == Return(Name("params"))

\* eval(params)
CallEval == Expr(Call(Name("eval"), <<Name("params")>>))

\* os.system(params)
CallOsSystem == Expr(Call(Attribute(Name("os"), "system"), <<Name("params")>>))

ImportOs == Import(<<alias(<<"os">>, "")>>)

ImportSys == Import(<<alias(<<"sys">>, "")>>)

\* def f(params)
ParamsOnly == arguments(<<>>, <<"params">>, "", <<>>, "", <<>>)

\* the parameter lists of the model's function definitions
ArgLists ==
    {ParamsOnly,
     arguments(<<>>, <<>>, "", <<>>, "", <<>>),                    \* ()
     arguments(<<>>, <<"p">>, "", <<>>, "", <<>>),                 \* (p)
     arguments(<<>>, <<"params", "x">>, "", <<>>, "", <<>>),       \* (params, x)
     arguments(<<"x">>, <<"params">>, "", <<>>, "", <<>>),         \* (x, /, params)
     arguments(<<"params">>, <<>>, "", <<>>, "", <<>>),            \* (params, /)
     arguments(<<>>, <<"params">>, "a", <<>>, "", <<>>),           \* (params, *a)
     arguments(<<>>, <<"params">>, "", <<"k">>, "", <<>>),         \* (params, *, k)
     arguments(<<>>, <<"params">>, "", <<>>, "kw", <<>>),          \* (params, **kw)
     arguments(<<>>, <<"params">>, "", <<>>, "",
               <<Call(Name("eval"), <<>>)>>)}                      \* (params=eval())

\* the bodies of the model's run functions
Bodies ==
    {<<ReturnParams>>,
     <<PrintParams, ReturnParams>>,
     <<PrintParams, RaiseValueError>>,
     <<PrintParams, RaiseSystemExit>>,
     <<ImportOs, ReturnParams>>,
     <<ImportOs, CallOsSystem>>,
     <<CallEval>>,
     <<ImportSys, PrintParams, WriteStderr, RaiseValueError>>}

\* the top-level statements of the model's scripts
TopStmts ==
    {Import(<<alias(<<"math">>, "")>>),
     Import(<<alias(<<"os">>, "")>>),
     Import(<<alias(<<"os", "path">>, "")>>),
     Import(<<alias(<<"json">>, ""), alias(<<"sys">>, "")>>),
     Import(<<alias(<<"math">>, "run")>>),
     ImportFrom(<<"math">>, <<alias(<<"sqrt">>, "")>>),
     ImportFrom(<<"shutil">>, <<alias(<<"collections">>, "")>>),
     ImportFrom(<<"os", "path">>, <<alias(<<"join">>, "")>>),
     Assign(Name("x"), Name("params")),
     PrintParams,
     RaiseValueError,
     FunctionDef("helper", ParamsOnly, <<ReturnParams>>, <<>>),
     AsyncFunctionDef("run", ParamsOnly, <<ReturnParams>>, <<>>),
     FunctionDef("run", ParamsOnly, <<ReturnParams>>, <<Name("property")>>)}
    \cup {FunctionDef("run", a, <<ReturnParams>>, <<>>) : a \in ArgLists}
    \cup {FunctionDef("run", ParamsOnly, b, <<>>) : b \in Bodies}

RECURSIVE SeqsUpTo(_, _)
SeqsUpTo(S, n) ==
    IF n = 0 THEN {<<>>}
    ELSE LET shorter == SeqsUpTo(S, n - 1)
         IN  shorter \cup {Append(q, s) : q \in shorter, s \in S}

\* A source text: how parsing it ends ("ok", "SyntaxError": malformed syntax,
\* "Exception": any other failure of the parser, such as exhausted recursion)
\* and the tree of a text that parses.
\* blank: the text is empty or white space only.
SourceUnit(parse, body, blank) ==
    [parse |-> parse, tree |-> Module(body), blank |-> blank]

Scripts ==
    {SourceUnit("ok", b, FALSE) : b \in SeqsUpTo(TopStmts, MaxStmts)}
    \cup {SourceUnit("SyntaxError", <<>>, FALSE),
          SourceUnit("Exception", <<>>, FALSE),
          SourceUnit("ok", <<>>, TRUE)}

\* the scripts handed to execute_task
RunnerScripts ==
    {SourceUnit("ok", <<FunctionDef("run", ParamsOnly, b, <<>>)>>, FALSE) : b \in Bodies}
    \cup {SourceUnit("SyntaxError", <<>>, FALSE),
          SourceUnit("ok", <<PrintParams, RaiseValueError>>, FALSE),
          SourceUnit("ok", <<Assign(Name("x"), Name("params"))>>, FALSE),
          SourceUnit("ok", <<FunctionDef("run", ParamsOnly, <<ReturnParams>>, <<>>),
                             Import(<<alias(<<"math">>, "run")>>)>>, FALSE),
          SourceUnit("ok", <<FunctionDef("run", ParamsOnly, <<ReturnParams>>,
                                         <<Name("property")>>)>>, FALSE),
          SourceUnit("ok", <<FunctionDef("run",
                                         arguments(<<>>, <<"params">>, "", <<"k">>, "", <<>>),
                                         <<ReturnParams>>, <<>>)>>, FALSE),
          SourceUnit("ok", <<ImportFrom(<<"math">>, <<alias(<<"sqrt">>, "")>>),
                             FunctionDef("run", ParamsOnly, <<PrintParams>>, <<>>)>>, FALSE)}


(***************************************************************************)
(* The validator: validator.py, validate_code.                             *)
(***************************************************************************)
\* one entry of the errors list: the message's fixed text and the name in it
Error(kind, name) == [kind |-> kind, name |-> name]

\* ast.parse(code_str): the tree, or the exception class it raises
ast_parse(code_str) == code_str.parse

\* alias.name.split('.')[0]
module_name(a) == a.name[1]

\* lines 70-73: the errors of one import statement's names
RECURSIVE import_errors(_)
import_errors(names) ==
    IF names = <<>> THEN <<>>
    ELSE (IF module_name(Head(names)) \notin ALLOWED_IMPORTS
          THEN <<Error("Forbidden import", module_name(Head(names)))>>
          ELSE <<>>)
         \o import_errors(Tail(names))

\* lines 79-81: the check of run's parameter list
run_args_errors(node) ==
    LET args == node.args.args
    IN  IF Len(args) # 1 \/ args[1] # "params"
        THEN <<Error("Function 'run' must accept exactly one argument named 'params'", "")>>
        ELSE <<>>

\* lines 68-87: the errors one top-level statement adds
node_errors(node) ==
    IF node.type \in {"Import", "ImportFrom"} THEN import_errors(node.names)
    ELSE IF node.type = "FunctionDef"
         THEN IF node.name = "run" THEN run_args_errors(node)
              ELSE <<Error("Forbidden top-level function", node.name)>>
         ELSE <<Error("Forbidden top-level statement type", node.type)>>

\* lines 74-77: whether the statement sets has_run_func
node_is_run(node) == node.type = "FunctionDef" /\ node.name = "run"

\* lines 65-87: the loop over tree.body
RECURSIVE structure_check(_)
structure_check(body) ==
    IF body = <<>> THEN [errors |-> <<>>, has_run_func |-> FALSE]
    ELSE LET rest == structure_check(Tail(body))
         IN  [errors |-> node_errors(Head(body)) \o rest.errors,
              has_run_func |-> node_is_run(Head(body)) \/ rest.has_run_func]

\* lines 90-91
missing_run_errors(has_run_func) ==
    IF ~has_run_func THEN <<Error("Missing required function", "run")>> ELSE <<>>

arg(name) == [type |-> "arg", arg |-> name]

RECURSIVE arg_nodes(_)
arg_nodes(names) ==
    IF names = <<>> THEN <<>> ELSE <<arg(Head(names))>> \o arg_nodes(Tail(names))

\* ast.iter_child_nodes(node): the child nodes, in the order of the node's fields
iter_child_nodes(node) ==
    CASE node.type = "Module" -> node.body
      [] node.type \in {"Import", "ImportFrom"} -> node.names
      [] node.type \in {"FunctionDef", "AsyncFunctionDef"} ->
            <<node.args>> \o node.body \o node.decorator_list
      [] node.type = "arguments" ->
            arg_nodes(node.posonlyargs) \o arg_nodes(node.args)
            \o (IF node.vararg = "" THEN <<>> ELSE <<arg(node.vararg)>>)
            \o arg_nodes(node.kwonlyargs)
            \o (IF node.kwarg = "" THEN <<>> ELSE <<arg(node.kwarg)>>)
            \o node.defaults
      [] node.type \in {"Expr", "Return"} -> <<node.value>>
      [] node.type = "Raise" -> <<node.exc>>
      [] node.type = "Assign" -> node.targets \o <<node.value>>
      [] node.type = "Call" -> <<node.func>> \o node.args
      [] node.type = "Attribute" -> <<node.value>>
      [] OTHER -> <<>>

\* ast.walk(tree): every node, breadth first
RECURSIVE walk(_)
walk(todo) ==
    IF todo = <<>> THEN <<>>
    ELSE <<Head(todo)>> \o walk(Tail(todo) \o iter_child_nodes(Head(todo)))

\* lines 97-104: the errors one node of the deep scan adds
call_errors(node) ==
    IF node.type = "Call"
    THEN IF node.func.type = "Name"
         THEN IF node.func.id \in FORBIDDEN_CALLS
              THEN <<Error("Forbidden function call", node.func.id)>>
              ELSE <<>>
         ELSE IF node.func.type = "Attribute"
              THEN IF node.func.attr \in FORBIDDEN_ATTRS
                   THEN <<Error("Forbidden attribute access", node.func.attr)>>
                   ELSE <<>>
              ELSE <<>>
    ELSE <<>>

\* lines 95-104: the loop over ast.walk(tree)
RECURSIVE deep_scan(_)
deep_scan(nodes) ==
    IF nodes = <<>> THEN <<>>
    ELSE call_errors(Head(nodes)) \o deep_scan(Tail(nodes))

\* a parse failure reported with no message
parse_failure_report_no_message(kind) == [valid |-> FALSE, errors |-> <<>>]

\* lines 58 and 61: the report of a text that does not parse
parse_failure_report(kind) == [valid |-> FALSE, errors |-> <<Error(kind, "")>>]

\* lines 107-110
analysis_report(errors) == [valid |-> Len(errors) = 0, errors |-> errors]

\* lines 41-110
validate_code(code_str) ==
    IF ast_parse(code_str) = "SyntaxError" THEN parse_failure_report("Syntax Error")
    ELSE IF ast_parse(code_str) = "Exception" THEN parse_failure_report("Parse Error")
    ELSE LET tree == code_str.tree
             structure == structure_check(tree.body)
         IN  analysis_report(structure.errors
                             \o missing_run_errors(structure.has_run_func)
                             \o deep_scan(walk(<<tree>>)))


(***************************************************************************)
(* Run-time values.  Every Python value of the model is one record shape:  *)
(* its type, a name (a module's or class's name) and a number (a params    *)
(* payload's identity, or the index in the module body of the def that     *)
(* made a function).                                                       *)
(***************************************************************************)
Value(kind, name, idx) == [kind |-> kind, name |-> name, idx |-> idx]

None == Value("NoneType", "", 0)

\* the params mapping handed to call k
Payload(k) == Value("dict", "", k)

\* one piece of text written to a stream
Chunk(text, of) == [text |-> text, of |-> of]

\* str(v) of a params payload, and the line end print adds
str(v) == Chunk("str(params)", v.idx)

Newline == Chunk("\n", 0)

\* callable(v)
callable(v) == v.kind \in {"function", "coroutinefunction", "builtin_function_or_method"}

\* issubclass(exc, Exception): what `except Exception` catches
IsException(exc) ==
    exc \notin {"SystemExit", "KeyboardInterrupt", "GeneratorExit", "BaseException"}

(***************************************************************************)
(* The statements a script executes.  exec_stmt gives the effect of one    *)
(* statement run with global names G (the sandbox), local names L and      *)
(* position i in the module body: the names it binds, the modules it       *)
(* imports, the text it writes to the current standard streams, the        *)
(* exception it raises ("" when none) and whether and what it returns.     *)
(***************************************************************************)
Effect(binds, imports, out, err, exc, returns, value) ==
    [binds |-> binds, imports |-> imports, out |-> out, err |-> err,
     exc |-> exc, returns |-> returns, value |-> value]

NoEffect == Effect(<<>>, {}, <<>>, <<>>, "", FALSE, None)

Raises(exc) == Effect(<<>>, {}, <<>>, <<>>, exc, FALSE, None)

Bind(name, value) == [name |-> name, value |-> value]

\* a name is looked up in the locals, then the globals, then the namespace's
\* __builtins__ (runner.py lines 84-93: only the names of SAFE_BUILTINS)
IsBound(G, L, id) == id \in DOMAIN L \/ id \in DOMAIN G \/ id \in SAFE_BUILTINS

Lookup(G, L, id) ==
    IF id \in DOMAIN L THEN L[id]
    ELSE IF id \in DOMAIN G THEN G[id]
    ELSE Value("builtin_function_or_method", id, 0)

\* the names an expression evaluates, in evaluation order
RECURSIVE names_of(_)
names_of(e) ==
    CASE e.type = "Name" -> <<e.id>>
      [] e.type = "Attribute" -> names_of(e.value)
      [] e.type = "Call" ->
            names_of(e.func)
            \o (IF e.args = <<>> THEN <<>> ELSE names_of(e.args[1]))
      [] OTHER -> <<>>

RECURSIVE names_of_all(_)
names_of_all(es) ==
    IF es = <<>> THEN <<>> ELSE names_of(Head(es)) \o names_of_all(Tail(es))

AllBound(G, L, ids) == \A j \in 1..Len(ids) : IsBound(G, L, ids[j])

\* the module object an import statement's alias binds, and under which name
RECURSIVE import_binds(_)
import_binds(names) ==
    IF names = <<>> THEN <<>>
    ELSE LET a == Head(names)
         IN  <<Bind(IF a.asname = "" THEN a.name[1] ELSE a.asname,
                    Value("module",
                          IF a.asname = "" THEN a.name[1] ELSE a.name[Len(a.name)],
                          0))>>
             \o import_binds(Tail(names))

\* the names of the model that are modules of the Python installation
PythonModules == ALLOWED_IMPORTS \cup {"os", "sys", "shutil"}

\* what `from module import name` binds: a submodule or a function of it
RECURSIVE from_binds(_)
from_binds(names) ==
    IF names = <<>> THEN <<>>
    ELSE LET a == Head(names)
         IN  <<Bind(IF a.asname = "" THEN a.name[1] ELSE a.asname,
                    IF a.name[1] \in PythonModules
                    THEN Value("module", a.name[1], 0)
                    ELSE Value("builtin_function_or_method", a.name[1], 0))>>
             \o from_binds(Tail(names))

\* the object a decorator list leaves bound to a def's name
decorated(node, i) ==
    IF node.decorator_list = <<>>
    THEN Value(IF node.type = "AsyncFunctionDef" THEN "coroutinefunction"
               ELSE "function", node.name, i)
    ELSE Value(node.decorator_list[1].id, node.name, i)

\* the effect of a call expression used as a statement
call_effect(G, L, e) ==
    IF e.func = Name("print") /\ Lookup(G, L, "print").kind = "builtin_function_or_method"
    THEN Effect(<<>>, {}, <<str(Lookup(G, L, e.args[1].id)), Newline>>, <<>>,
                "", FALSE, None)
    ELSE IF e.func = Attribute(Attribute(Name("sys"), "stderr"), "write")
            /\ Lookup(G, L, "sys") = Value("module", "sys", 0)
         THEN Effect(<<>>, {}, <<>>, <<str(Lookup(G, L, e.args[1].args[1].id))>>,
                     "", FALSE, None)
         ELSE NoEffect

exec_stmt(G, L, node, i) ==
    CASE node.type = "Import" ->
            Effect(import_binds(node.names),
                   {node.names[j].name[1] : j \in 1..Len(node.names)},
                   <<>>, <<>>, "", FALSE, None)
      [] node.type = "ImportFrom" ->
            Effect(from_binds(node.names),
                   {node.module[1]}
                   \cup ({node.names[j].name[1] : j \in 1..Len(node.names)}
                            \cap PythonModules),
                   <<>>, <<>>, "", FALSE, None)
      [] node.type \in {"FunctionDef", "AsyncFunctionDef"} ->
            IF ~AllBound(G, L, names_of_all(node.decorator_list \o node.args.defaults))
            THEN Raises("NameError")
            ELSE Effect(<<Bind(node.name, decorated(node, i))>>, {},
                        <<>>, <<>>, "", FALSE, None)
      [] node.type = "Assign" ->
            IF ~AllBound(G, L, names_of(node.value)) THEN Raises("NameError")
            ELSE Effect(<<Bind(node.targets[1].id, Lookup(G, L, node.value.id))>>, {},
                        <<>>, <<>>, "", FALSE, None)
      [] node.type = "Expr" ->
            IF ~AllBound(G, L, names_of(node.value)) THEN Raises("NameError")
            ELSE call_effect(G, L, node.value)
      [] node.type = "Raise" ->
            IF ~AllBound(G, L, names_of(node.exc)) THEN Raises("NameError")
            ELSE Raises(node.exc.func.id)
      [] node.type = "Return" ->
            IF ~AllBound(G, L, names_of(node.value)) THEN Raises("NameError")
            ELSE Effect(<<>>, {}, <<>>, <<>>, "", TRUE, Lookup(G, L, node.value.id))

\* a namespace after the bindings of an effect
RECURSIVE rebind(_, _)
rebind(ns, binds) ==
    IF binds = <<>> THEN ns
    ELSE LET b == Head(binds)
         IN  rebind([n \in DOMAIN ns \cup {b.name} |->
                        IF n = b.name THEN b.value ELSE ns[n]],
                    Tail(binds))

\* whether a def's parameters accept the one positional argument of run(params)
accepts_one_positional(a) ==
    LET positional == a.posonlyargs \o a.args
    IN  /\ a.kwonlyargs = <<>>
        /\ \/ Len(positional) = 0 /\ a.vararg # ""
           \/ Len(positional) >= 1 /\ Len(positional) - 1 <= Len(a.defaults)

\* the locals of run's frame as the call binds them
bind_arguments(a, v) ==
    LET positional == a.posonlyargs \o a.args
    IN  IF Len(positional) = 0 THEN [n \in {a.vararg} |-> Value("tuple", "", v.idx)]
        ELSE [n \in {positional[1]} |-> v]


(***************************************************************************)
(* State.                                                                  *)
(***************************************************************************)
VARIABLES
    vpc,          \* validator.py as a process: where its main block is
    code_input,   \* validator.py: the text read from standard input
    vresult,      \* validator.py: the report printed
    pc,           \* per thread: where its execute_task call is
    frame,        \* per thread: the locals of its execute_task call
    result,       \* per thread: what its last execute_task call gave its caller
    sys_stdout,   \* sys.stdout: 0 is the stream the process started with,
                  \*   k > 0 the stdout_capture of the k-th call
    sys_stderr,   \* sys.stderr, likewise
    stdout_text,  \* the text written to each stream that sys.stdout can be
    stderr_text,  \* the text written to each stream that sys.stderr can be
    ncalls        \* execute_task calls started so far

vars ==
    <<vpc, code_input, vresult, pc, frame, result, sys_stdout, sys_stderr,
      stdout_text, stderr_text, ncalls>>

validator_vars == <<vpc, code_input, vresult>>

runner_vars ==
    <<pc, frame, result, sys_stdout, sys_stderr, stdout_text, stderr_text, ncalls>>

Threads == 1..NumThreads

NoCode == SourceUnit("none", <<>>, TRUE)

NoReport == [valid |-> FALSE, errors |-> <<>>]

\* the locals of execute_task (runner.py lines 84-101), the redirect context
\* managers' saved targets, the position in the script, and a record of what
\* the script did: the modules it imported and the text it wrote.
Frame(code_str, params, k) ==
    [code_str |-> code_str, params |-> params,
     sandbox |-> [n \in {"__builtins__", "params"} |->
                    IF n = "params" THEN params ELSE Value("dict", "__builtins__", 0)],
     stdout_capture |-> k, stderr_capture |-> k,
     result_data |-> None, success |-> FALSE, error_msg |-> None,
     old_stdout |-> <<>>, old_stderr |-> <<>>,
     ip |-> 1, fn |-> 0, L |-> [n \in {} |-> None], exc |-> "",
     imported |-> {}, wrote_out |-> <<>>, wrote_err |-> <<>>]

NoResult ==
    [returned |-> FALSE, raised |-> "", success |-> FALSE, data |-> None,
     error |-> None, stdout |-> <<>>, stderr |-> <<>>]

Init ==
    /\ vpc = "start"
    /\ code_input = NoCode
    /\ vresult = NoReport
    /\ pc = [t \in Threads |-> "idle"]
    /\ frame = [t \in Threads |-> Frame(NoCode, None, 0)]
    /\ result = [t \in Threads |-> NoResult]
    /\ sys_stdout = 0
    /\ sys_stderr = 0
    /\ stdout_text = [k \in 0..MaxCalls |-> <<>>]
    /\ stderr_text = [k \in 0..MaxCalls |-> <<>>]
    /\ ncalls = 0

(***************************************************************************)
(* validator.py run as a program (lines 112-127).                          *)
(***************************************************************************)
\* line 116: code_input = sys.stdin.read()
ValidatorRead ==
    /\ vpc = "start"
    /\ \E s \in Scripts : code_input' = s
    /\ vpc' = "read"
    /\ UNCHANGED <<vresult, runner_vars>>

\* lines 117-119: blank input is answered without validate_code
ValidatorEmptyInput ==
    /\ vpc = "read"
    /\ code_input.blank
    /\ vresult' = [valid |-> FALSE, errors |-> <<Error("Empty code input", "")>>]
    /\ vpc' = "exit"
    /\ UNCHANGED <<code_input, runner_vars>>

\* lines 122-124: result = validate_code(code_input), printed
ValidatorValidate ==
    /\ vpc = "read"
    /\ ~code_input.blank
    /\ vresult' = validate_code(code_input)
    /\ vpc' = "printed"
    /\ UNCHANGED <<code_input, runner_vars>>

ValidatorNext == ValidatorRead \/ ValidatorEmptyInput \/ ValidatorValidate

SpecValidator == Init /\ [][ValidatorNext]_vars


(***************************************************************************)
(* The runner: runner.py, execute_task.  One action per step at which      *)
(* another thread of the process can run in between.                       *)
(***************************************************************************)
\* traceback.format_exc(): text that ends with the exception's class name
format_exc(exc) == Value("str", exc, 0)

\* an except clause that records the failure but not its trace
on_exception_no_trace(f) == [f EXCEPT !.success = FALSE]

\* lines 118-121: the except clause
on_exception(f) == [f EXCEPT !.error_msg = format_exc(f.exc), !.success = FALSE]

\* lines 115-116: result_data = sandbox['run'](params); success = True
on_return(f, v) == [f EXCEPT !.result_data = v, !.success = TRUE]

\* a result that keeps the captured text of successful calls only
make_result_output_on_success(f, out, err) ==
    [returned |-> TRUE, raised |-> "", success |-> f.success,
     data |-> f.result_data, error |-> f.error_msg,
     stdout |-> IF f.success THEN out ELSE <<>>,
     stderr |-> IF f.success THEN err ELSE <<>>]

\* lines 124-130: the dictionary returned, given the captured text
make_result(f, out, err) ==
    [returned |-> TRUE, raised |-> "", success |-> f.success,
     data |-> f.result_data, error |-> f.error_msg,
     stdout |-> out, stderr |-> err]

\* lines 84-101: a call starts; its namespace and its two buffers are new
ExecuteTask(t) ==
    /\ pc[t] = "idle"
    /\ ncalls < MaxCalls
    /\ \E code_str \in RunnerScripts :
          frame' = [frame EXCEPT ![t] = Frame(code_str, Payload(ncalls + 1), ncalls + 1)]
    /\ ncalls' = ncalls + 1
    /\ result' = [result EXCEPT ![t] = NoResult]
    /\ pc' = [pc EXCEPT ![t] = "enter_stdout"]
    /\ UNCHANGED <<validator_vars, sys_stdout, sys_stderr, stdout_text, stderr_text>>

\* line 105, redirect_stdout.__enter__: the current sys.stdout is saved ...
EnterStdoutSave(t) ==
    /\ pc[t] = "enter_stdout"
    /\ frame' = [frame EXCEPT ![t].old_stdout = Append(@, sys_stdout)]
    /\ pc' = [pc EXCEPT ![t] = "set_stdout"]
    /\ UNCHANGED <<validator_vars, result, sys_stdout, sys_stderr, stdout_text,
                   stderr_text, ncalls>>

\* ... and sys.stdout is set to stdout_capture
EnterStdoutSet(t) ==
    /\ pc[t] = "set_stdout"
    /\ sys_stdout' = frame[t].stdout_capture
    /\ pc' = [pc EXCEPT ![t] = "enter_stderr"]
    /\ UNCHANGED <<validator_vars, frame, result, sys_stderr, stdout_text,
                   stderr_text, ncalls>>

\* line 105, redirect_stderr.__enter__
EnterStderrSave(t) ==
    /\ pc[t] = "enter_stderr"
    /\ frame' = [frame EXCEPT ![t].old_stderr = Append(@, sys_stderr)]
    /\ pc' = [pc EXCEPT ![t] = "set_stderr"]
    /\ UNCHANGED <<validator_vars, result, sys_stdout, sys_stderr, stdout_text,
                   stderr_text, ncalls>>

EnterStderrSet(t) ==
    /\ pc[t] = "set_stderr"
    /\ sys_stderr' = frame[t].stderr_capture
    /\ pc' = [pc EXCEPT ![t] = "exec"]
    /\ UNCHANGED <<validator_vars, frame, result, sys_stdout, stdout_text,
                   stderr_text, ncalls>>

\* the frame after one statement's effect e; the bindings go to the globals
\* while the module body runs and to the locals while run's body runs
after_stmt(f, e, in_run) ==
    [f EXCEPT !.sandbox = IF in_run THEN @ ELSE rebind(@, e.binds),
              !.L = IF in_run THEN rebind(@, e.binds) ELSE @,
              !.imported = @ \cup e.imports,
              !.wrote_out = @ \o e.out,
              !.wrote_err = @ \o e.err,
              !.exc = e.exc,
              !.ip = @ + 1]

\* text written through sys.stdout and sys.stderr goes to the streams that
\* are installed at that moment
Written(e) ==
    /\ stdout_text' = [stdout_text EXCEPT ![sys_stdout] = @ \o e.out]
    /\ stderr_text' = [stderr_text EXCEPT ![sys_stderr] = @ \o e.err]

\* line 108, exec(code_str, sandbox): the text does not compile
ExecCompileError(t) ==
    /\ pc[t] = "exec"
    /\ ast_parse(frame[t].code_str) # "ok"
    /\ frame' = [frame EXCEPT ![t].exc =
                    IF ast_parse(frame[t].code_str) = "SyntaxError"
                    THEN "SyntaxError" ELSE "RecursionError"]
    /\ pc' = [pc EXCEPT ![t] = "exit_stderr"]
    /\ UNCHANGED <<validator_vars, result, sys_stdout, sys_stderr, stdout_text,
                   stderr_text, ncalls>>

\* line 108, exec(code_str, sandbox): the next statement of the module body
ExecStmt(t) ==
    /\ pc[t] = "exec"
    /\ ast_parse(frame[t].code_str) = "ok"
    /\ LET f == frame[t]
           body == f.code_str.tree.body
       IN  IF f.ip > Len(body)
           THEN /\ pc' = [pc EXCEPT ![t] = "check"]
                /\ UNCHANGED <<frame, stdout_text, stderr_text>>
           ELSE LET e == exec_stmt(f.sandbox, f.L, body[f.ip], f.ip)
                IN  /\ frame' = [frame EXCEPT ![t] = after_stmt(f, e, FALSE)]
                    /\ Written(e)
                    /\ pc' = [pc EXCEPT ![t] = IF e.exc # "" THEN "exit_stderr" ELSE "exec"]
    /\ UNCHANGED <<validator_vars, result, sys_stdout, sys_stderr, ncalls>>

\* line 111: the test of the entry point
has_entry_point(sandbox) == "run" \in DOMAIN sandbox /\ callable(sandbox["run"])

\* lines 111-112
CheckRun(t) ==
    /\ pc[t] = "check"
    /\ IF has_entry_point(frame[t].sandbox)
       THEN /\ pc' = [pc EXCEPT ![t] = "call"]
            /\ UNCHANGED frame
       ELSE /\ frame' = [frame EXCEPT ![t].exc = "ValueError"]
            /\ pc' = [pc EXCEPT ![t] = "exit_stderr"]
    /\ UNCHANGED <<validator_vars, result, sys_stdout, sys_stderr, stdout_text,
                   stderr_text, ncalls>>

\* line 115, sandbox['run'](params): the argument is bound, or the call fails
CallRun(t) ==
    /\ pc[t] = "call"
    /\ LET f == frame[t]
           run == f.sandbox["run"]
           def == f.code_str.tree.body[run.idx]
       IN  IF run.kind = "builtin_function_or_method" \/ ~accepts_one_positional(def.args)
           THEN /\ frame' = [frame EXCEPT ![t].exc = "TypeError"]
                /\ pc' = [pc EXCEPT ![t] = "exit_stderr"]
           ELSE IF run.kind = "coroutinefunction"
                THEN /\ frame' = [frame EXCEPT ![t] =
                                     on_return(f, Value("coroutine", def.name, run.idx))]
                     /\ pc' = [pc EXCEPT ![t] = "exit_stderr"]
                ELSE /\ frame' = [frame EXCEPT ![t].fn = run.idx,
                                               ![t].ip = 1,
                                               ![t].L = bind_arguments(def.args, f.params)]
                     /\ pc' = [pc EXCEPT ![t] = "run"]
    /\ UNCHANGED <<validator_vars, result, sys_stdout, sys_stderr, stdout_text,
                   stderr_text, ncalls>>

\* line 115: the next statement of run's body; lines 115-116 when it returns
RunStmt(t) ==
    /\ pc[t] = "run"
    /\ LET f == frame[t]
           body == f.code_str.tree.body[f.fn].body
       IN  IF f.ip > Len(body)
           THEN /\ frame' = [frame EXCEPT ![t] = on_return(f, None)]
                /\ pc' = [pc EXCEPT ![t] = "exit_stderr"]
                /\ UNCHANGED <<stdout_text, stderr_text>>
           ELSE LET e == exec_stmt(f.sandbox, f.L, body[f.ip], f.ip)
                    g == after_stmt(f, e, TRUE)
                IN  /\ frame' = [frame EXCEPT ![t] =
                                    IF e.returns THEN on_return(g, e.value) ELSE g]
                    /\ Written(e)
                    /\ pc' = [pc EXCEPT ![t] =
                                 IF e.exc # "" \/ e.returns THEN "exit_stderr" ELSE "run"]
    /\ UNCHANGED <<validator_vars, result, sys_stdout, sys_stderr, ncalls>>

\* line 105, redirect_stderr.__exit__: sys.stderr is set to the saved target
ExitStderr(t) ==
    /\ pc[t] = "exit_stderr"
    /\ sys_stderr' = frame[t].old_stderr[Len(frame[t].old_stderr)]
    /\ frame' = [frame EXCEPT ![t].old_stderr = SubSeq(@, 1, Len(@) - 1)]
    /\ pc' = [pc EXCEPT ![t] = "exit_stdout"]
    /\ UNCHANGED <<validator_vars, result, sys_stdout, stdout_text, stderr_text, ncalls>>

\* line 105, redirect_stdout.__exit__
ExitStdout(t) ==
    /\ pc[t] = "exit_stdout"
    /\ sys_stdout' = frame[t].old_stdout[Len(frame[t].old_stdout)]
    /\ frame' = [frame EXCEPT ![t].old_stdout = SubSeq(@, 1, Len(@) - 1)]
    /\ pc' = [pc EXCEPT ![t] = IF frame[t].exc = "" THEN "return" ELSE "except"]
    /\ UNCHANGED <<validator_vars, result, sys_stderr, stdout_text, stderr_text, ncalls>>

\* lines 118-121: an exception of the Exception hierarchy is caught
Except(t) ==
    /\ pc[t] = "except"
    /\ IsException(frame[t].exc)
    /\ frame' = [frame EXCEPT ![t] = on_exception(@)]
    /\ pc' = [pc EXCEPT ![t] = "return"]
    /\ UNCHANGED <<validator_vars, result, sys_stdout, sys_stderr, stdout_text,
                   stderr_text, ncalls>>

\* line 118: any other exception leaves execute_task; the caller gets no result
Propagate(t) ==
    /\ pc[t] = "except"
    /\ ~IsException(frame[t].exc)
    /\ result' = [result EXCEPT ![t] = [NoResult EXCEPT !.raised = frame[t].exc]]
    /\ pc' = [pc EXCEPT ![t] = "idle"]
    /\ UNCHANGED <<validator_vars, frame, sys_stdout, sys_stderr, stdout_text,
                   stderr_text, ncalls>>

\* lines 124-130
ReturnResult(t) ==
    /\ pc[t] = "return"
    /\ result' = [result EXCEPT ![t] =
                     make_result(frame[t], stdout_text[frame[t].stdout_capture],
                                 stderr_text[frame[t].stderr_capture])]
    /\ pc' = [pc EXCEPT ![t] = "idle"]
    /\ UNCHANGED <<validator_vars, frame, sys_stdout, sys_stderr, stdout_text,
                   stderr_text, ncalls>>

\* a step of a call in progress
Step(t) ==
    \/ EnterStdoutSave(t)
    \/ EnterStdoutSet(t)
    \/ EnterStderrSave(t)
    \/ EnterStderrSet(t)
    \/ ExecCompileError(t)
    \/ ExecStmt(t)
    \/ CheckRun(t)
    \/ CallRun(t)
    \/ RunStmt(t)
    \/ ExitStderr(t)
    \/ ExitStdout(t)
    \/ Except(t)
    \/ Propagate(t)
    \/ ReturnResult(t)

\* threads of one process call execute_task, with nothing to order them
Next == \E t \in Threads : ExecuteTask(t) \/ Step(t)

Spec == Init /\ [][Next]_vars

\* the calls of one process follow one another: a call starts when none is
\* in progress (runner.py run as a program makes one call, lines 132-159)
NoCallInProgress == \A t \in Threads : pc[t] = "idle"

SeqNext == \E t \in Threads : (NoCallInProgress /\ ExecuteTask(t)) \/ Step(t)

SpecSeq == Init /\ [][SeqNext]_vars


(***************************************************************************)
(* Properties.                                                             *)
(***************************************************************************)
\* the script of thread t's call passes validate_code
Accepted(t) == validate_code(frame[t].code_str).valid

\* C1: a script that validate_code accepts and execute_task runs imports no
\* module whose root name is outside ALLOWED_IMPORTS, neither while it is
\* loaded nor while run(params) executes, at any nesting depth.
C1_AcceptedScriptsImportOnlyWhitelisted ==
    \A t \in Threads :
        (pc[t] # "idle" \/ result[t] # NoResult) /\ Accepted(t)
            => frame[t].imported \subseteq ALLOWED_IMPORTS

\* the modules a top-level import statement imports (import X.Y: each X.Y
\* named; from X.Y import n: X.Y)
ImportedModules(node) ==
    IF node.type = "Import" THEN {node.names[j].name : j \in 1..Len(node.names)}
    ELSE {node.module}

\* the validator flags the statement as a forbidden import
Flagged(node) ==
    \E j \in 1..Len(node_errors(node)) : node_errors(node)[j].kind = "Forbidden import"

ValidatedBody == IF ast_parse(code_input) = "ok" THEN code_input.tree.body ELSE <<>>

\* C2: validate_code flags a top-level import statement of either form
\* exactly when the root component of a module it imports is not in
\* ALLOWED_IMPORTS.
C2_ImportFlaggedIffRootNotWhitelisted ==
    vpc = "printed" =>
        \A i \in 1..Len(ValidatedBody) :
            ValidatedBody[i].type \in {"Import", "ImportFrom"} =>
                (Flagged(ValidatedBody[i])
                    <=> \E m \in ImportedModules(ValidatedBody[i]) :
                            m[1] \notin ALLOWED_IMPORTS)

\* an import statement that passes the validator's import check
UnflaggedImport(node) == node.type \in {"Import", "ImportFrom"} /\ ~Flagged(node)

\* C3: a script with valid == true has a top-level body that is zero or more
\* allowed imports followed by exactly one definition of run.
C3_ValidBodyIsImportsThenOneRun ==
    (vpc = "printed" /\ vresult.valid) =>
        /\ Len(ValidatedBody) >= 1
        /\ node_is_run(ValidatedBody[Len(ValidatedBody)])
        /\ \A i \in 1..(Len(ValidatedBody) - 1) : UnflaggedImport(ValidatedBody[i])

\* a parameter list that is exactly one positional parameter named params
ExactlyParams(a) ==
    /\ a.posonlyargs \o a.args = <<"params">>
    /\ a.vararg = ""
    /\ a.kwonlyargs = <<>>
    /\ a.kwarg = ""

HasError(report, kind) ==
    \E j \in 1..Len(report.errors) : report.errors[j].kind = kind

\* C4: a top-level run whose parameter list is anything other than exactly
\* one positional parameter named params makes validate_code report the
\* signature error; so the run of every accepted script can be called with
\* one positional argument.
C4_RunSignatureEnforced ==
    vpc = "printed" =>
        \A i \in 1..Len(ValidatedBody) :
            node_is_run(ValidatedBody[i]) =>
                /\ ~ExactlyParams(ValidatedBody[i].args) =>
                       HasError(vresult,
                                "Function 'run' must accept exactly one argument named 'params'")
                /\ vresult.valid => accepts_one_positional(ValidatedBody[i].args)

\* C5: every result execute_task returns satisfies: success implies
\* error is None; not success implies data is None and error is not None.
C5_ResultInvariant ==
    \A t \in Threads :
        result[t].returned =>
            /\ result[t].success => result[t].error = None
            /\ ~result[t].success => result[t].data = None /\ result[t].error # None

\* a call failed inside run(params) and returned its result
C5_Witness ==
    \E t \in Threads :
        /\ result[t].returned
        /\ ~result[t].success
        /\ frame[t].fn > 0
        /\ result[t].error = format_exc("ValueError")

\* the text in a result's stdout and stderr that came from a params payload
Sources(r) ==
    {r.stdout[j].of : j \in 1..Len(r.stdout)} \cup {r.stderr[j].of : j \in 1..Len(r.stderr)}

\* C6: calls running at the same time never observe each other's state:
\* what a call's script writes appears in that call's stdout and stderr and
\* in no other call's, and each script sees its own params.
C6_ConcurrentCallsIsolated ==
    \A t \in Threads :
        /\ pc[t] # "idle" => frame[t].sandbox["params"] = frame[t].params
        /\ result[t].returned =>
              /\ Sources(result[t]) \subseteq {0, frame[t].params.idx}
              /\ result[t].stdout = frame[t].wrote_out
              /\ result[t].stderr = frame[t].wrote_err

\* C7: a call that fails returns, as stdout and stderr, exactly the text its
\* script wrote to each stream before the failure, in order, and as error
\* the formatted trace that names the exception.
C7_FailurePreservesOutput ==
    \A t \in Threads :
        (result[t].returned /\ ~result[t].success) =>
            /\ result[t].stdout = frame[t].wrote_out
            /\ result[t].stderr = frame[t].wrote_err
            /\ frame[t].exc # ""
            /\ result[t].error = format_exc(frame[t].exc)

\* a call failed after its script wrote to both streams
C7_Witness ==
    \E t \in Threads :
        /\ result[t].returned
        /\ ~result[t].success
        /\ result[t].stdout = <<str(frame[t].params), Newline>>
        /\ result[t].stderr = <<str(frame[t].params)>>

\* C8: validate_code's report has valid == true exactly when its errors
\* list is empty, on the syntax-error, parse-error and full-analysis paths.
C8_ValidIffNoErrors ==
    vpc = "printed" => (vresult.valid <=> vresult.errors = <<>>)

\* a script of two statements passed the full analysis
C8_Witness ==
    /\ vpc = "printed"
    /\ vresult.valid
    /\ vresult.errors = <<>>
    /\ Len(ValidatedBody) >= 2

\* C9: whenever no execute_task call is in progress, sys.stdout and
\* sys.stderr are the streams installed before the calls began.
C9_StreamsRestoredWhenIdle ==
    NoCallInProgress => sys_stdout = 0 /\ sys_stderr = 0

\* C10: for a script that validate_code accepts and whose load completes
\* without raising, the namespace holds a callable run, so the entry-point
\* error is never reported.
C10_AcceptedScriptHasEntryPoint ==
    \A t \in Threads :
        (pc[t] = "check" /\ Accepted(t)) => has_entry_point(frame[t].sandbox)

=============================================================================
